---- MODULE Spec2Model ----
(***************************************************************************)
(* Model container of the finite-state-machine layer of TChecker:         *)
(* tchecker::fsm::details::model_t (include/tchecker/fsm/details/model.hh) *)
(* A model binds a system to the typed AST and the bytecode of every      *)
(* location invariant, edge guard and edge statement, and owns them       *)
(* through raw pointers.                                                   *)
(***************************************************************************)
EXTENDS Integers, Sequences, FiniteSets, Bags, TLC

\* ---------------------------------------------------------------- bounds
MaxLoc == 1
MaxEdge == 1
MaxModels == 2
MaxAddr == 12
MaxReaders == 2
MaxNodes == 10
MaxRoots == 2

Models == 1..MaxModels
Null == 0
\* the element of a one-element set (binds an intermediate result once)
Pick(S) == CHOOSE x \in S : TRUE

\* ------------------------------------------------- variable environment
\* integer variables x : int[0,3], y : int[0,10]; every other name is
\* undeclared
IntVarNames == {"x", "y"}
IntVarIndex(v) == IF v = "x" THEN 0 ELSE 1
IntVarLow(v) == 0
IntVarHigh(v) == IF v = "x" THEN 3 ELSE 10

\* --------------------------------------------------------- untyped ASTs
\* expressions share one record shape [node, var, val]
MkExpr(n, v, k) == [node |-> n, var |-> v, val |-> k]
NoExpr == MkExpr("none", "", 0)
\* statements share one record shape [node, lvalue, rvalue]
MkStmt(n, l, r) == [node |-> n, lvalue |-> l, rvalue |-> r]

\* attributes a location or an edge can carry
ExprAttrs ==
  { MkExpr("true", "", 1),          \* true
    MkExpr("lt", "x", 5),           \* x < 5
    MkExpr("lt", "z", 5),           \* z < 5, z undeclared
    MkExpr("divlt", "x", 5),        \* 5 / x < 5, x may be 0
    MkExpr("unsupported", "", 0),   \* well typed, rejected by the compiler
    MkExpr("malformed", "", 0) }    \* makes the type checker throw
StmtAttrs ==
  { MkStmt("nop", "", NoExpr),                      \* nop
    MkStmt("assign", "x", MkExpr("int", "", 1)),    \* x = 1
    MkStmt("assign", "x", MkExpr("var", "y", 0)),   \* x = y, narrowing
    MkStmt("assign", "z", MkExpr("int", "", 1)),    \* z = 1, z undeclared
    MkStmt("unsupported", "", NoExpr) }             \* rejected by the compiler

Digit(k) == IF k = 0 THEN "0" ELSE IF k = 1 THEN "1" ELSE "5"

\* pretty-printing of an expression
ExprToString(e) ==
  CASE e.node = "true" -> "true"
    [] e.node = "int" -> Digit(e.val)
    [] e.node = "var" -> e.var
    [] e.node = "lt" -> e.var \o " < " \o Digit(e.val)
    [] e.node = "divlt" -> "5 / " \o e.var \o " < " \o Digit(e.val)
    [] OTHER -> "<" \o e.node \o ">"

\* pretty-printing of a statement
StmtToString(s) ==
  CASE s.node = "nop" -> "nop"
    [] s.node = "assign" -> s.lvalue \o " = " \o ExprToString(s.rvalue)
    [] OTHER -> "<" \o s.node \o ">"

\* ------------------------------------------------------------- systems
MkEdge(g, s, w) == [guard |-> g, statement |-> s, weak |-> w]
\* the edges a system can have: guard, statement, and whether the event of
\* the edge is weakly synchronized
EdgeSet ==
  { MkEdge(MkExpr("true", "", 1), MkStmt("nop", "", NoExpr), TRUE),
    MkEdge(MkExpr("lt", "x", 5), MkStmt("nop", "", NoExpr), TRUE),
    MkEdge(MkExpr("lt", "z", 5), MkStmt("nop", "", NoExpr), TRUE),
    MkEdge(MkExpr("lt", "x", 5),
           MkStmt("assign", "x", MkExpr("int", "", 1)), FALSE) }
  \cup { MkEdge(g, MkStmt("nop", "", NoExpr), FALSE) :
          g \in ExprAttrs \ {MkExpr("true", "", 1), MkExpr("lt", "x", 5)} }
  \cup { MkEdge(MkExpr("true", "", 1), s, FALSE) :
          s \in StmtAttrs \ {MkStmt("nop", "", NoExpr)} }
  \cup { MkEdge(g, MkStmt("assign", "z", MkExpr("int", "", 1)), FALSE) :
          g \in {MkExpr("lt", "z", 5), MkExpr("malformed", "", 0)} }

SeqsUpTo(S, n) == UNION { [1..k -> S] : k \in 0..n }

\* a system: locations (by id, slot i holds id i-1) and edges (by id)
MkSystem(ls, es) == [locs |-> ls, edges |-> es]
Systems == { MkSystem(ls, es) : ls \in SeqsUpTo(ExprAttrs, MaxLoc),
                                es \in SeqsUpTo(EdgeSet, MaxEdge) }
NoSystem == MkSystem(<<>>, <<>>)

locations_count(system) == Len(system.locs)
edges_count(system) == Len(system.edges)

\* some edge labelled by a weakly synchronized event has a guard that is
\* not the constant true
has_guarded_weakly_synchronized_event(system) ==
  \E i \in 1..Len(system.edges) :
    system.edges[i].weak /\ system.edges[i].guard # MkExpr("true", "", 1)


\* --------------------------------------------------------- heap cells
\* one cell per address; new / new[] takes the lowest free address and
\* delete / delete[] gives the address back
MkCell(k, ty, e, st, c) ==
  [kind |-> k, type |-> ty, expr |-> e, stmt |-> st, code |-> c]
NoStmt == MkStmt("none", "", NoExpr)
FreeCell == MkCell("free", "", NoExpr, NoStmt, <<>>)
Addrs == 1..MaxAddr
FreeAddrs(heap) == { a \in Addrs : heap[a] = FreeCell }
Allocated(heap) == Addrs \ FreeAddrs(heap)
\* the address new returns
FirstFree(heap) == CHOOSE a \in FreeAddrs(heap) : \A b \in FreeAddrs(heap) : a <= b

\* ------------------------------------------------------- type checker
MkDiag(sev, msg) == [sev |-> sev, msg |-> msg]
MkTyped(exc, diags, cell) == [exc |-> exc, diags |-> diags, cell |-> cell]
TypedExpr(e, ty) == MkCell("typed_expression", ty, e, NoStmt, <<>>)
TypedStmt(s, ty) == MkCell("typed_statement", ty, NoExpr, s, <<>>)

\* tchecker::typecheck on an expression used as invariant or guard
typecheck_expression(e) ==
  CASE e.node = "malformed" ->
         MkTyped("invalid_argument", <<>>, TypedExpr(e, "bad"))
    [] e.node = "true" -> MkTyped("", <<>>, TypedExpr(e, "bool"))
    [] e.node = "unsupported" -> MkTyped("", <<>>, TypedExpr(e, "bool"))
    [] e.node = "lt" ->
         IF e.var \in IntVarNames
         THEN MkTyped("", <<>>, TypedExpr(e, "bool"))
         ELSE MkTyped("", <<MkDiag("error", "undeclared identifier")>>,
                      TypedExpr(e, "bad"))
    [] e.node = "divlt" ->
         IF e.var \notin IntVarNames
         THEN MkTyped("", <<MkDiag("error", "undeclared identifier")>>,
                      TypedExpr(e, "bad"))
         ELSE IF IntVarLow(e.var) <= 0 /\ 0 <= IntVarHigh(e.var)
              THEN MkTyped("", <<MkDiag("warning", "possible division by zero")>>,
                           TypedExpr(e, "bool"))
              ELSE MkTyped("", <<>>, TypedExpr(e, "bool"))
    [] OTHER -> MkTyped("", <<MkDiag("error", "expression is not bool")>>,
                        TypedExpr(e, "bad"))

\* static range of an rvalue: <<declared, low, high>>
RvalueRange(r) ==
  CASE r.node = "int" -> <<TRUE, r.val, r.val>>
    [] r.node = "var" /\ r.var \in IntVarNames ->
         <<TRUE, IntVarLow(r.var), IntVarHigh(r.var)>>
    [] OTHER -> <<FALSE, 0, 0>>

\* tchecker::typecheck on a statement
typecheck_statement(s) ==
  CASE s.node = "nop" -> MkTyped("", <<>>, TypedStmt(s, "stmt"))
    [] s.node = "unsupported" -> MkTyped("", <<>>, TypedStmt(s, "stmt"))
    [] s.node = "assign" ->
         LET rr == RvalueRange(s.rvalue) IN
         IF s.lvalue \notin IntVarNames \/ ~rr[1]
         THEN MkTyped("", <<MkDiag("error", "undeclared identifier")>>,
                      TypedStmt(s, "bad"))
         ELSE IF rr[2] < IntVarLow(s.lvalue) \/ rr[3] > IntVarHigh(s.lvalue)
              THEN MkTyped("", <<MkDiag("warning", "possible value loss")>>,
                           TypedStmt(s, "stmt"))
              ELSE MkTyped("", <<>>, TypedStmt(s, "stmt"))
    [] OTHER -> MkTyped("invalid_argument", <<>>, TypedStmt(s, "bad"))

\* --------------------------------------------------- bytecode compiler
Instr(op, a) == [op |-> op, a |-> a]
MkCompiled(exc, code) == [exc |-> exc, code |-> code]

\* code that leaves the value of an integer rvalue on the stack
CompileRvalue(r) ==
  IF r.node = "int" THEN <<Instr("PUSH", r.val)>>
  ELSE <<Instr("VLOAD", IntVarIndex(r.var))>>

\* tchecker::compile on a typed expression (cell of kind typed_expression)
compile_expression(t) ==
  CASE t.type = "bad" -> MkCompiled("invalid expression", <<>>)
    [] t.expr.node = "true" ->
         MkCompiled("", <<Instr("PUSH", 1), Instr("RET", 0)>>)
    [] t.expr.node = "lt" ->
         MkCompiled("", <<Instr("VLOAD", IntVarIndex(t.expr.var)),
                          Instr("PUSH", t.expr.val),
                          Instr("LT", 0), Instr("RET", 0)>>)
    [] t.expr.node = "divlt" ->
         MkCompiled("", <<Instr("PUSH", 5),
                          Instr("VLOAD", IntVarIndex(t.expr.var)),
                          Instr("DIV", 0),
                          Instr("PUSH", t.expr.val),
                          Instr("LT", 0), Instr("RET", 0)>>)
    [] OTHER -> MkCompiled("unexpected typed expression", <<>>)

\* tchecker::compile on a typed statement (cell of kind typed_statement)
compile_statement(t) ==
  CASE t.type = "bad" -> MkCompiled("invalid statement", <<>>)
    [] t.stmt.node = "nop" -> MkCompiled("", <<Instr("RET", 0)>>)
    [] t.stmt.node = "assign" ->
         MkCompiled("", CompileRvalue(t.stmt.rvalue)
                        \o <<Instr("VSTORE", IntVarIndex(t.stmt.lvalue)),
                             Instr("RET", 0)>>)
    [] OTHER -> MkCompiled("unexpected typed statement", <<>>)

\* pretty-printing of a typed AST
TypedToString(t) ==
  IF t.kind = "typed_expression" THEN ExprToString(t.expr)
  ELSE StmtToString(t.stmt)


\* --------------------------------------------------------------- logger
\* tchecker::log_t as the container uses it: error(context, message) and
\* error_count(); origin keeps how the emitter classified the diagnostic
MkLog(n) == [errors |-> n, warnings |-> 0, entries |-> <<>>]
log_error(log, ctx, msg, origin) ==
  [log EXCEPT !.errors = @ + 1,
              !.entries = Append(@, [ctx |-> ctx, msg |-> msg,
                                     sev |-> "error", origin |-> origin])]

RECURSIVE ReportAll(_, _, _, _)
\* the callback handed to the type checker, applied to each diagnostic
ReportAll(log, ctx, diags, i) ==
  IF i > Len(diags) THEN log
  ELSE ReportAll(log_error(log, ctx, diags[i].msg, diags[i].sev), ctx, diags, i + 1)

\* ----------------------------------------------------------- containers
ContNames == {"typed_invariants", "typed_guards", "typed_statements",
              "invariants_bytecode", "guards_bytecode", "statements_bytecode"}
EmptyCont == [n \in ContNames |-> <<>>]
Nulls(n) == [i \in 1..n |-> Null]

\* state threaded through one compilation pass; tc, cc: the contexts the
\* type checker and the compiler were called for; wr: the slots assigned
MkPass(c, heap, log) ==
  [c |-> c, heap |-> heap, log |-> log, tc |-> <<>>, cc |-> <<>>,
   wr |-> <<>>, exc |-> ""]

\* model_t::typecheck: the type checker reports through one callback,
\* which forwards to log.error with the attribute's context message
typecheck(st, attr, isStmt, ctx) ==
  LET tr == IF isStmt THEN typecheck_statement(attr)
            ELSE typecheck_expression(attr)
  IN [exc |-> tr.exc, cell |-> tr.cell,
      log |-> IF tr.exc # "" THEN st.log
              ELSE ReportAll(st.log, ctx, tr.diags, 1)]

\* the loop body with a catch clause that reports nothing
CompileAttribute_unreported(st, tname, bname, prefix, isStmt, id, attr) ==
  LET ctx == prefix \o (IF isStmt THEN StmtToString(attr) ELSE ExprToString(attr))
      tr == typecheck(st, attr, isStmt, ctx)
      ta == FirstFree(st.heap)
      heap1 == [st.heap EXCEPT ![ta] = tr.cell]
      ba == FirstFree(heap1)
      c1 == [st.c EXCEPT ![tname][id] = ta]
      cr == IF isStmt THEN compile_statement(heap1[ta])
            ELSE compile_expression(heap1[ta])
  IN IF tr.exc # ""
     THEN [st EXCEPT !.exc = tr.exc, !.tc = Append(@, ctx)]
     ELSE IF cr.exc # ""
          THEN [st EXCEPT !.c = c1, !.heap = heap1,
                          !.tc = Append(@, ctx), !.cc = Append(@, ctx),
                          !.wr = Append(@, <<tname, id>>),
                          !.log = tr.log]
          ELSE [st EXCEPT !.c = [c1 EXCEPT ![bname][id] = ba],
                          !.heap = [heap1 EXCEPT ![ba] =
                                     MkCell("bytecode", "", NoExpr, NoStmt, cr.code)],
                          !.tc = Append(@, ctx), !.cc = Append(@, ctx),
                          !.wr = @ \o <<(<<tname, id>>), (<<bname, id>>)>>,
                          !.log = tr.log]

\* body of the loop of compile_invariants / compile_guards /
\* compile_statements for the element of identifier id - 1
CompileAttribute(st, tname, bname, prefix, isStmt, id, attr) ==
  LET ctx == prefix \o (IF isStmt THEN StmtToString(attr) ELSE ExprToString(attr))
      tr == typecheck(st, attr, isStmt, ctx)
      ta == FirstFree(st.heap)
      heap1 == [st.heap EXCEPT ![ta] = tr.cell]
      ba == FirstFree(heap1)
      c1 == [st.c EXCEPT ![tname][id] = ta]
      cr == IF isStmt THEN compile_statement(heap1[ta])
            ELSE compile_expression(heap1[ta])
  IN IF tr.exc # ""
     THEN [st EXCEPT !.exc = tr.exc, !.tc = Append(@, ctx)]
     ELSE IF cr.exc # ""
          THEN [st EXCEPT !.c = c1, !.heap = heap1,
                          !.tc = Append(@, ctx), !.cc = Append(@, ctx),
                          !.wr = Append(@, <<tname, id>>),
                          !.log = log_error(tr.log, ctx, cr.exc, "compiler")]
          ELSE [st EXCEPT !.c = [c1 EXCEPT ![bname][id] = ba],
                          !.heap = [heap1 EXCEPT ![ba] =
                                     MkCell("bytecode", "", NoExpr, NoStmt, cr.code)],
                          !.tc = Append(@, ctx), !.cc = Append(@, ctx),
                          !.wr = @ \o <<(<<tname, id>>), (<<bname, id>>)>>,
                          !.log = tr.log]

RECURSIVE CompileLoop(_, _, _, _, _, _, _)
\* range-for over the elements, stopped by an escaping exception
CompileLoop(st, tname, bname, prefix, isStmt, attrs, i) ==
  IF st.exc # "" \/ i > Len(attrs) THEN st
  ELSE Pick({ CompileLoop(nx, tname, bname, prefix, isStmt, attrs, i + 1) :
              nx \in {CompileAttribute(st, tname, bname, prefix, isStmt, i, attrs[i])} })

Resized(st, tname, bname, n) ==
  [st EXCEPT !.c = [@ EXCEPT ![tname] = Nulls(n), ![bname] = Nulls(n)]]

compile_invariants(st, system) ==
  IF st.c["typed_invariants"] # <<>>
  THEN [st EXCEPT !.exc = "typed invariants not empty"]
  ELSE IF st.c["invariants_bytecode"] # <<>>
  THEN [st EXCEPT !.exc = "invariants bytecode not empty"]
  ELSE CompileLoop(Resized(st, "typed_invariants", "invariants_bytecode",
                           locations_count(system)),
                   "typed_invariants", "invariants_bytecode",
                   "Attribute invariant: ", FALSE, system.locs, 1)

\* compile_guards reporting with the context of compile_invariants
compile_guards_invariant_context(st, system) ==
  IF st.c["typed_guards"] # <<>>
  THEN [st EXCEPT !.exc = "typed guards not empty"]
  ELSE IF st.c["guards_bytecode"] # <<>>
  THEN [st EXCEPT !.exc = "guards bytecode not empty"]
  ELSE CompileLoop(Resized(st, "typed_guards", "guards_bytecode",
                           edges_count(system)),
                   "typed_guards", "guards_bytecode",
                   "Attribute invariant: ", FALSE,
                   [i \in 1..Len(system.edges) |-> system.edges[i].guard], 1)

compile_guards(st, system) ==
  IF st.c["typed_guards"] # <<>>
  THEN [st EXCEPT !.exc = "typed guards not empty"]
  ELSE IF st.c["guards_bytecode"] # <<>>
  THEN [st EXCEPT !.exc = "guards bytecode not empty"]
  ELSE CompileLoop(Resized(st, "typed_guards", "guards_bytecode",
                           edges_count(system)),
                   "typed_guards", "guards_bytecode",
                   "Attribute provided: ", FALSE,
                   [i \in 1..Len(system.edges) |-> system.edges[i].guard], 1)

\* compile_statements filling the containers of the guards
compile_statements_into_guards(st, system) ==
  IF st.c["typed_statements"] # <<>>
  THEN [st EXCEPT !.exc = "typed statements not empty"]
  ELSE IF st.c["statements_bytecode"] # <<>>
  THEN [st EXCEPT !.exc = "statements bytecode not empty"]
  ELSE CompileLoop(Resized(st, "typed_statements", "statements_bytecode",
                           edges_count(system)),
                   "typed_guards", "guards_bytecode",
                   "Attribute do: ", TRUE,
                   [i \in 1..Len(system.edges) |-> system.edges[i].statement], 1)

compile_statements(st, system) ==
  IF st.c["typed_statements"] # <<>>
  THEN [st EXCEPT !.exc = "typed statements not empty"]
  ELSE IF st.c["statements_bytecode"] # <<>>
  THEN [st EXCEPT !.exc = "statements bytecode not empty"]
  ELSE CompileLoop(Resized(st, "typed_statements", "statements_bytecode",
                           edges_count(system)),
                   "typed_statements", "statements_bytecode",
                   "Attribute do: ", TRUE,
                   [i \in 1..Len(system.edges) |-> system.edges[i].statement], 1)

\* compile running the guards before the invariants
compile_guards_first(st, system) ==
  Pick({ IF s1.exc # "" THEN s1
         ELSE Pick({ IF s2.exc # "" THEN s2 ELSE compile_statements(s2, system) :
                     s2 \in {compile_invariants(s1, system)} }) :
         s1 \in {compile_guards(st, system)} })

\* model_t::compile: invariants, then guards, then statements
compile(st, system) ==
  Pick({ IF s1.exc # "" THEN s1
         ELSE Pick({ IF s2.exc # "" THEN s2 ELSE compile_statements(s2, system) :
                     s2 \in {compile_guards(s1, system)} }) :
         s1 \in {compile_invariants(st, system)} })

RECURSIVE DeleteAll(_, _, _)
\* delete / delete[] on each pointer of a container (no-op on nullptr);
\* twice records a delete of a cell that is not allocated
DeleteAll(mem, ptrs, i) ==
  IF i > Len(ptrs) THEN mem
  ELSE Pick({ DeleteAll(nx, ptrs, i + 1) :
              nx \in { IF ptrs[i] = Null THEN mem
                       ELSE IF mem.heap[ptrs[i]] = FreeCell
                            THEN [mem EXCEPT !.twice = TRUE]
                            ELSE [mem EXCEPT !.heap[ptrs[i]] = FreeCell] } })

\* model_t::free_memory: the containers after the six clear()
Cleared(c) == [n \in DOMAIN c |-> SubSeq(c[n], 1, 0)]

\* model_t::free_memory: the memory after the six delete loops
free_memory(c, mem) ==
  DeleteAll(mem, c["typed_invariants"] \o c["typed_guards"]
                 \o c["typed_statements"] \o c["invariants_bytecode"]
                 \o c["guards_bytecode"] \o c["statements_bytecode"], 1)


\* ---------------------------------------------------------------- state
VARIABLES
  models,   \* the model objects, by slot
  heap,     \* the cell at every address
  twice,    \* a cell was deleted while not allocated
  parsed,   \* the parsed system models are constructed from
  caller,   \* errors already in the log handed to the constructor
  readers,  \* the accessor calls in progress, as a bag of [m, acc, id]
  nodes,    \* the statement and expression nodes, by address
  roots,    \* the nodes the caller owns, a stack
  sres,     \* what the last operation on statements did
  res       \* what the last operation did and how it ended

vars == <<models, heap, twice, parsed, caller, res, readers, nodes, roots, sres>>

\* a slot holding no object
NoModel == [alive |-> FALSE, has_system |-> FALSE, system |-> NoSystem,
            vm_variables |-> "default", c |-> EmptyCont]

\* c: the containers the operation filled (or, for a transfer or a
\* release, the ones it took); caller: errors already in the caller's log
MkRes(op, m, src, outcome, st, before) ==
  [op |-> op, m |-> m, src |-> src, outcome |-> outcome,
   errors |-> st.log.errors, entries |-> st.log.entries,
   tc |-> st.tc, cc |-> st.cc, wr |-> st.wr, c |-> st.c, caller |-> before]
EmptyHeap == [a \in Addrs |-> FreeCell]

\* ------------------------------------------------------------ accessors
\* an accessor on a model: the assertion bounds the identifier by the size
\* of the container named bound, then slot id of the container cont is read
\* (identifiers start at 0, sequences at 1); reading past the end of a
\* vector is outside what operator[] defines
access(model, cont, bound, id) ==
  IF ~(id < Len(model.c[bound]))
  THEN [exit |-> "assertion failed", ptr |-> Null]
  ELSE IF id + 1 \notin DOMAIN model.c[cont]
       THEN [exit |-> "out of range", ptr |-> Null]
       ELSE [exit |-> "ok", ptr |-> model.c[cont][id + 1]]

typed_invariant(model, loc_id) ==
  access(model, "typed_invariants", "invariants_bytecode", loc_id)
typed_guard(model, edge_id) ==
  access(model, "typed_guards", "guards_bytecode", edge_id)
typed_statement(model, edge_id) ==
  access(model, "typed_statements", "statements_bytecode", edge_id)
invariant_bytecode(model, loc_id) ==
  access(model, "invariants_bytecode", "invariants_bytecode", loc_id)
guard_bytecode(model, edge_id) ==
  access(model, "guards_bytecode", "guards_bytecode", edge_id)
statement_bytecode(model, edge_id) ==
  access(model, "statements_bytecode", "statements_bytecode", edge_id)
vm_variables(model) == model.vm_variables
NoPass == MkPass(EmptyCont, EmptyHeap, MkLog(0))

\* cells one compilation of system obtains at most
Need(sys) == 2 * (locations_count(sys) + 2 * edges_count(sys))
Room(sys) == Cardinality(FreeAddrs(heap)) >= Need(sys)

CallerErrors == {0, 1}

\* ------------------------------------------------- statement nodes
\* a node of an untyped AST: a statement (nop, assign, sequence) or an
\* expression (var, an lvalue; int); left and right are the addresses of
\* the children the node owns
NodeAddrs == 1..MaxNodes
MkNode(k, n, v, l, r) == [kind |-> k, name |-> n, val |-> v, left |-> l, right |-> r]
FreeNode == MkNode("free", "", 0, Null, Null)
\* op: the operation; exit: how it ended; node: the node it returned; from:
\* its arguments
MkSRes(op, exit, node, from) ==
  [op |-> op, exit |-> exit, node |-> node, from |-> from]
NoSRes == MkSRes("none", "", Null, <<>>)

FreeNodes(nds) == { a \in NodeAddrs : nds[a] = FreeNode }
\* the address new returns
FirstFreeNode(nds) ==
  CHOOSE a \in FreeNodes(nds) : \A b \in FreeNodes(nds) : a <= b
IsStatement(nds, a) == a # Null /\ nds[a].kind \in {"nop", "assign", "sequence"}
IsLvalue(nds, a) == a # Null /\ nds[a].kind = "var"
IsExpression(nds, a) == a # Null /\ nds[a].kind \in {"var", "int"}

\* new of a node without children
new_leaf(nds, k, n, v) ==
  [exit |-> "ok", node |-> FirstFreeNode(nds),
   nodes |-> [nds EXCEPT ![FirstFreeNode(nds)] = MkNode(k, n, v, Null, Null)]]

\* a constructor that does not test its arguments
new_assign_unchecked(nds, lvalue, rvalue) ==
  [exit |-> "ok", node |-> FirstFreeNode(nds),
   nodes |-> [nds EXCEPT ![FirstFreeNode(nds)] =
                MkNode("assign", "", 0, lvalue, rvalue)]]

\* new assign_statement_t(lvalue, rvalue): throws on a null argument, else
\* the node takes ownership of both
new_assign(nds, lvalue, rvalue) ==
  IF lvalue = Null \/ rvalue = Null
  THEN [exit |-> "invalid_argument", node |-> Null, nodes |-> nds]
  ELSE [exit |-> "ok", node |-> FirstFreeNode(nds),
        nodes |-> [nds EXCEPT ![FirstFreeNode(nds)] =
                     MkNode("assign", "", 0, lvalue, rvalue)]]

\* new sequence_statement_t(first, second): throws on a null argument,
\* else the node takes ownership of both
new_sequence(nds, first, second) ==
  IF first = Null \/ second = Null
  THEN [exit |-> "invalid_argument", node |-> Null, nodes |-> nds]
  ELSE [exit |-> "ok", node |-> FirstFreeNode(nds),
        nodes |-> [nds EXCEPT ![FirstFreeNode(nds)] =
                     MkNode("sequence", "", 0, first, second)]]

\* a clone that copies the node and keeps its children's addresses
clone_shallow(nds, a) ==
  [exit |-> "ok", node |-> FirstFreeNode(nds),
   nodes |-> [nds EXCEPT ![FirstFreeNode(nds)] = nds[a]]]

RECURSIVE clone(_, _)
\* clone() on node a: do_clone of the node's class, which clones the
\* children and constructs a node of the same class from the clones
clone(nds, a) ==
  IF nds[a].kind \in {"assign", "sequence"}
  THEN Pick({ Pick({ IF nds[a].kind = "assign"
                     THEN new_assign(c2.nodes, c1.node, c2.node)
                     ELSE new_sequence(c2.nodes, c1.node, c2.node) :
                     c2 \in {clone(c1.nodes, nds[a].right)} }) :
              c1 \in {clone(nds, nds[a].left)} })
  ELSE new_leaf(nds, nds[a].kind, nds[a].name, nds[a].val)

RECURSIVE delete(_, _)
\* delete on node a: the destructor deletes the children the node owns
delete(nds, a) ==
  IF nds[a].kind \in {"assign", "sequence"}
  THEN Pick({ [n2 EXCEPT ![a] = FreeNode] :
              n2 \in { Pick({ delete(n1, nds[a].right) :
                              n1 \in {delete(nds, nds[a].left)} }) } })
  ELSE [nds EXCEPT ![a] = FreeNode]

RECURSIVE Size(_, _)
\* number of nodes of the tree at a
Size(nds, a) ==
  IF nds[a].kind \in {"assign", "sequence"}
  THEN 1 + Size(nds, nds[a].left) + Size(nds, nds[a].right)
  ELSE 1

Init ==
  /\ models = [m \in Models |-> NoModel]
  /\ heap = EmptyHeap
  /\ twice = FALSE
  /\ parsed \in Systems
  /\ caller \in CallerErrors
  /\ res = MkRes("none", 0, 0, "", NoPass, 0)
  /\ readers = EmptyBag
  /\ nodes = [a \in NodeAddrs |-> FreeNode]
  /\ roots = <<>>
  /\ sres = NoSRes

WeakSyncError == "Weakly synchronized event shall not be guarded"
CompilationFailure == "System compilation failure"

\* the constructor with the static analysis moved after the compilation
construct_body_weak_late(mem, system, before) ==
  Pick({ IF st.exc # "" THEN [outcome |-> st.exc, st |-> st]
         ELSE IF has_guarded_weakly_synchronized_event(system)
         THEN [outcome |-> WeakSyncError, st |-> st]
         ELSE IF st.log.errors > 0 THEN [outcome |-> CompilationFailure, st |-> st]
         ELSE [outcome |-> "ok", st |-> st] :
         st \in {compile(MkPass(EmptyCont, mem, MkLog(before)), system)} })

\* the constructor with a test that tolerates one error
construct_body_one_error(mem, system, before) ==
  IF has_guarded_weakly_synchronized_event(system)
  THEN [outcome |-> WeakSyncError, st |-> MkPass(EmptyCont, mem, MkLog(before))]
  ELSE Pick({ IF st.exc # "" THEN [outcome |-> st.exc, st |-> st]
              ELSE IF st.log.errors > 1
              THEN [outcome |-> CompilationFailure, st |-> st]
              ELSE [outcome |-> "ok", st |-> st] :
              st \in {compile(MkPass(EmptyCont, mem, MkLog(before)), system)} })

\* the constructor without the test of the error count
construct_body_unchecked(mem, system, before) ==
  IF has_guarded_weakly_synchronized_event(system)
  THEN [outcome |-> WeakSyncError, st |-> MkPass(EmptyCont, mem, MkLog(before))]
  ELSE Pick({ IF st.exc # "" THEN [outcome |-> st.exc, st |-> st]
              ELSE [outcome |-> "ok", st |-> st] :
              st \in {compile(MkPass(EmptyCont, mem, MkLog(before)), system)} })

\* body of model_t(SYSTEM *, log_t &): how it ends and the pass it ran
construct_body(mem, system, before) ==
  IF has_guarded_weakly_synchronized_event(system)
  THEN [outcome |-> WeakSyncError, st |-> MkPass(EmptyCont, mem, MkLog(before))]
  ELSE Pick({ IF st.exc # "" THEN [outcome |-> st.exc, st |-> st]
              ELSE IF st.log.errors > 0
              THEN [outcome |-> CompilationFailure, st |-> st]
              ELSE [outcome |-> "ok", st |-> st] :
              st \in {compile(MkPass(EmptyCont, mem, MkLog(before)), system)} })

\* model_t(SYSTEM *, log_t &) on slot m, with a log already holding
\* caller errors; when the constructor throws there is no object and the
\* destructor does not run
Construct(m) ==
  /\ ~models[m].alive
  /\ Room(parsed)
  /\ \E r \in {construct_body(heap, parsed, caller)} :
        /\ res' = MkRes("construct", m, 0, r.outcome, r.st, caller)
        /\ heap' = r.st.heap
        /\ models' = IF r.outcome # "ok" THEN models
                     ELSE [models EXCEPT ![m] =
                             [alive |-> TRUE, has_system |-> TRUE,
                              system |-> parsed, vm_variables |-> "default",
                              c |-> r.st.c]]
  /\ UNCHANGED <<twice, parsed, caller, readers, nodes, roots, sres>>

\* outcome of a copy: the assertion on the silent log
CopyOutcome(st) ==
  IF st.exc # "" THEN st.exc
  ELSE IF st.log.errors = 0 THEN "ok" ELSE "assertion failed"

\* a copy constructor that copies the containers member by member
CopyConstruct_shallow(m, src) ==
  /\ ~models[m].alive
  /\ models[src].alive /\ models[src].has_system
  /\ Room(models[src].system)
  /\ res' = MkRes("copy construct", m, src, "ok",
                  MkPass(models[src].c, heap, MkLog(0)), 0)
  /\ models' = [models EXCEPT ![m] = models[src]]
  /\ UNCHANGED <<heap, twice, parsed, caller, readers, nodes, roots, sres>>

\* a copy constructor that compiles into a log already holding an error
CopyConstruct_used_log(m, src) ==
  /\ ~models[m].alive
  /\ models[src].alive /\ models[src].has_system
  /\ Room(models[src].system)
  /\ \E sys \in {models[src].system} :
     \E st \in {compile(MkPass(EmptyCont, heap, MkLog(1)), sys)} :
        /\ res' = MkRes("copy construct", m, src, CopyOutcome(st), st, 0)
        /\ heap' = st.heap
        /\ models' = [models EXCEPT ![m] =
                        IF st.exc # "" THEN NoModel
                        ELSE [alive |-> TRUE, has_system |-> TRUE,
                              system |-> sys, vm_variables |-> "default",
                              c |-> st.c]]
  /\ UNCHANGED <<twice, parsed, caller, readers, nodes, roots, sres>>

\* model_t(model_t const &) on slot m from slot src
CopyConstruct(m, src) ==
  /\ ~models[m].alive
  /\ models[src].alive /\ models[src].has_system
  /\ Room(models[src].system)
  /\ \E sys \in {models[src].system} :
     \E st \in {compile(MkPass(EmptyCont, heap, MkLog(0)), sys)} :
        /\ res' = MkRes("copy construct", m, src, CopyOutcome(st), st, 0)
        /\ heap' = st.heap
        /\ models' = [models EXCEPT ![m] =
                        IF st.exc # "" THEN NoModel
                        ELSE [alive |-> TRUE, has_system |-> TRUE,
                              system |-> sys, vm_variables |-> "default",
                              c |-> st.c]]
  /\ UNCHANGED <<twice, parsed, caller, readers, nodes, roots, sres>>

\* a move that copies the pointers and leaves them in the source
MovedFrom_kept(model) == [model EXCEPT !.has_system = FALSE, !.system = NoSystem]

\* a move that transfers the typed ASTs and leaves the bytecode vectors
MovedFrom_typed_only(model) ==
  [model EXCEPT !.has_system = FALSE, !.system = NoSystem,
                !.c = [n \in ContNames |->
                         IF n \in {"typed_invariants", "typed_guards",
                                   "typed_statements"} THEN <<>> ELSE @[n]]]

\* the state a defaulted move leaves its source in
MovedFrom(model) == [model EXCEPT !.has_system = FALSE, !.system = NoSystem,
                                  !.c = EmptyCont]

\* model_t(model_t &&) = default on slot m from slot src
MoveConstruct(m, src) ==
  /\ ~models[m].alive
  /\ models[src].alive
  /\ models' = [models EXCEPT ![m] = models[src], ![src] = MovedFrom(models[src])]
  /\ res' = MkRes("move construct", m, src, "ok",
                  MkPass(models[src].c, heap, MkLog(0)), 0)
  /\ UNCHANGED <<heap, twice, parsed, caller, readers, nodes, roots, sres>>

\* a copy assignment that does not call free_memory() first
CopyAssign_no_free(m, src) ==
  /\ models[m].alive
  /\ models[src].alive /\ models[src].has_system
  /\ IF m = src
     THEN /\ res' = MkRes("copy assign", m, src, "ok",
                          MkPass(models[m].c, heap, MkLog(0)), 0)
          /\ UNCHANGED <<models, heap, twice>>
     ELSE \E sys \in {models[src].system} :
          /\ Cardinality(FreeAddrs(heap)) >= Need(sys)
          /\ \E st \in {compile(MkPass(models[m].c, heap, MkLog(0)), sys)} :
             /\ res' = MkRes("copy assign", m, src, CopyOutcome(st), st, 0)
             /\ heap' = st.heap
             /\ twice' = twice
             /\ models' = [models EXCEPT ![m] =
                             [alive |-> TRUE, has_system |-> TRUE,
                              system |-> sys,
                              vm_variables |-> models[src].vm_variables,
                              c |-> st.c]]
  /\ UNCHANGED <<parsed, caller, readers, nodes, roots, sres>>

\* a copy assignment without the assignment of the base class: the target
\* keeps its own system and recompiles it
CopyAssign_own_system(m, src) ==
  /\ models[m].alive
  /\ models[src].alive /\ models[src].has_system
  /\ IF m = src
     THEN /\ res' = MkRes("copy assign", m, src, "ok",
                          MkPass(models[m].c, heap, MkLog(0)), 0)
          /\ UNCHANGED <<models, heap, twice>>
     ELSE \E sys \in {models[m].system} :
          \E mem \in {free_memory(models[m].c, [heap |-> heap, twice |-> twice])} :
          /\ Cardinality(FreeAddrs(mem.heap)) >= Need(sys)
          /\ \E st \in {compile(MkPass(Cleared(models[m].c), mem.heap,
                                        MkLog(0)), sys)} :
             /\ res' = MkRes("copy assign", m, src, CopyOutcome(st), st, 0)
             /\ heap' = st.heap
             /\ twice' = mem.twice
             /\ models' = [models EXCEPT ![m] =
                             [alive |-> TRUE, has_system |-> models[m].has_system,
                              system |-> sys,
                              vm_variables |-> models[src].vm_variables,
                              c |-> st.c]]
  /\ UNCHANGED <<parsed, caller, readers, nodes, roots, sres>>

\* operator=(model_t const &) on slot m from slot src
CopyAssign(m, src) ==
  /\ models[m].alive
  /\ models[src].alive /\ models[src].has_system
  /\ IF m = src
     THEN /\ res' = MkRes("copy assign", m, src, "ok",
                          MkPass(models[m].c, heap, MkLog(0)), 0)
          /\ UNCHANGED <<models, heap, twice>>
     ELSE \E sys \in {models[src].system} :
          \E mem \in {free_memory(models[m].c, [heap |-> heap, twice |-> twice])} :
          /\ Cardinality(FreeAddrs(mem.heap)) >= Need(sys)
          /\ \E st \in {compile(MkPass(Cleared(models[m].c), mem.heap,
                                        MkLog(0)), sys)} :
             /\ res' = MkRes("copy assign", m, src, CopyOutcome(st), st, 0)
             /\ heap' = st.heap
             /\ twice' = mem.twice
             /\ models' = [models EXCEPT ![m] =
                             [alive |-> TRUE, has_system |-> TRUE,
                              system |-> sys,
                              vm_variables |-> models[src].vm_variables,
                              c |-> st.c]]
  /\ UNCHANGED <<parsed, caller, readers, nodes, roots, sres>>

\* operator=(model_t &&) = default on slot m from another slot src
MoveAssign(m, src) ==
  /\ m # src
  /\ models[m].alive
  /\ models[src].alive
  /\ models' = [models EXCEPT ![m] = models[src], ![src] = MovedFrom(models[src])]
  /\ res' = MkRes("move assign", m, src, "ok",
                  MkPass(models[src].c, heap, MkLog(0)), 0)
  /\ UNCHANGED <<heap, twice, parsed, caller, readers, nodes, roots, sres>>

\* ~model_t() on slot m
Destroy(m) ==
  /\ models[m].alive
  /\ \E mem \in {free_memory(models[m].c, [heap |-> heap, twice |-> twice])} :
        /\ heap' = mem.heap
        /\ twice' = mem.twice
  /\ models' = [models EXCEPT ![m] = NoModel]
  /\ res' = MkRes("destroy", m, 0, "ok",
                  MkPass(models[m].c, heap, MkLog(0)), 0)
  /\ UNCHANGED <<parsed, caller, readers, nodes, roots, sres>>

Next ==
  \/ \E m \in Models : Construct(m)
  \/ \E m \in Models, src \in Models : CopyConstruct(m, src)
  \/ \E m \in Models, src \in Models : MoveConstruct(m, src)
  \/ \E m \in Models, src \in Models : CopyAssign(m, src)
  \/ \E m \in Models, src \in Models : MoveAssign(m, src)
  \/ \E m \in Models : Destroy(m)

Spec == Init /\ [][Next]_vars

\* -------------------------------------------------------------- readers
\* readers share a constructed model and call its accessors; a call takes
\* two steps, the assertion and the read of the slot, and the steps of
\* different calls interleave freely. The owner holds the models as scoped
\* objects: it constructs them in slot order and tears the last one down
\* once no call on it is in progress.
AccNames == {"typed_invariant", "typed_guard", "typed_statement",
             "invariant_bytecode", "guard_bytecode", "statement_bytecode",
             "vm_variables"}
MkRead(m, acc, id) == [m |-> m, acc |-> acc, id |-> id]

\* what the accessor acc gives for identifier id
Accessor(model, acc, id) ==
  CASE acc = "typed_invariant" -> typed_invariant(model, id)
    [] acc = "typed_guard" -> typed_guard(model, id)
    [] acc = "typed_statement" -> typed_statement(model, id)
    [] acc = "invariant_bytecode" -> invariant_bytecode(model, id)
    [] acc = "guard_bytecode" -> guard_bytecode(model, id)
    [] acc = "statement_bytecode" -> statement_bytecode(model, id)
    [] OTHER -> [exit |-> "ok", ptr |-> Null]

\* first step of a call: the assertion of the accessor holds
Call(m, acc, id) ==
  /\ models[m].alive
  /\ BagCardinality(readers) < MaxReaders
  /\ acc = "vm_variables" => id = 0
  /\ Accessor(models[m], acc, id).exit # "assertion failed"
  /\ readers' = readers (+) SetToBag({MkRead(m, acc, id)})
  /\ UNCHANGED <<models, heap, twice, parsed, caller, res, nodes, roots, sres>>

\* an accessor that hands the pointer over and clears the slot
Fetch_takes(m, acc, id) ==
  /\ BagIn(MkRead(m, acc, id), readers)
  /\ readers' = readers (-) SetToBag({MkRead(m, acc, id)})
  /\ models' = IF acc = "typed_guard" /\ id < Len(models[m].c["typed_guards"])
               THEN [models EXCEPT ![m].c["typed_guards"][id + 1] = Null]
               ELSE models
  /\ UNCHANGED <<heap, twice, parsed, caller, res, nodes, roots, sres>>

\* second step of a call: the const accessor reads the slot and returns
Fetch(m, acc, id) ==
  /\ BagIn(MkRead(m, acc, id), readers)
  /\ readers' = readers (-) SetToBag({MkRead(m, acc, id)})
  /\ models' = models
  /\ UNCHANGED <<heap, twice, parsed, caller, res, nodes, roots, sres>>

\* no call on model m is in progress
Released(m) == \A e \in BagToSet(readers) : e.m # m

\* the systems a model can be constructed from, with a log free of errors
InitReaders ==
  /\ Init
  /\ caller = 0
  /\ construct_body(EmptyHeap, parsed, 0).outcome = "ok"

\* the owner constructs the next model
Publish(m) ==
  /\ \A k \in Models : k < m => models[k].alive
  /\ Construct(m)

\* the owner tears the last model down
Retire(m) ==
  /\ \A k \in Models : k > m => ~models[k].alive
  /\ Released(m)
  /\ Destroy(m)

NextReaders ==
  \/ \E m \in Models : Publish(m)
  \/ \E m \in Models : Retire(m)
  \/ \E m \in Models, acc \in AccNames, id \in 0..(MaxLoc + MaxEdge) :
       Call(m, acc, id)
  \/ \E m \in Models, acc \in AccNames, id \in 0..(MaxLoc + MaxEdge) :
       Fetch(m, acc, id)

SpecReaders == InitReaders /\ [][NextReaders]_vars

\* ----------------------------------------------------------- statements
\* the caller builds statement trees bottom-up on a stack of the nodes it
\* owns (as a parser does), clones them and deletes them
Leaves == {<<"var", "x", 0>>, <<"int", "", 1>>, <<"nop", "", 0>>}

Top(st) == st[Len(st)]
Pop(st, n) == SubSeq(st, 1, Len(st) - n)
Without(st, i) == SubSeq(st, 1, i - 1) \o SubSeq(st, i + 1, Len(st))
\* the argument pairs a caller can pass to a constructor of two children:
\* the two topmost nodes it owns, or nullptr in place of either
Args(st) ==
  {<<Null, Null>>}
    \cup (IF Len(st) >= 1 THEN {<<Top(st), Null>>, <<Null, Top(st)>>} ELSE {})
    \cup (IF Len(st) >= 2 THEN {<<st[Len(st) - 1], Top(st)>>} ELSE {})

NewLeaf(k) ==
  /\ FreeNodes(nodes) # {}
  /\ Len(roots) < MaxRoots
  /\ \E r \in {new_leaf(nodes, k[1], k[2], k[3])} :
        /\ nodes' = r.nodes
        /\ roots' = Append(roots, r.node)
        /\ sres' = MkSRes("new", r.exit, r.node, <<>>)
  /\ UNCHANGED <<models, heap, twice, parsed, caller, res, readers>>

\* new assign_statement_t(l, r)
NewAssign(l, r) ==
  /\ FreeNodes(nodes) # {}
  /\ <<l, r>> \in Args(roots)
  /\ l = Null \/ IsLvalue(nodes, l)
  /\ r = Null \/ IsExpression(nodes, r)
  /\ \E c \in {new_assign(nodes, l, r)} :
        /\ nodes' = c.nodes
        /\ roots' = IF c.exit = "ok" THEN Append(Pop(roots, 2), c.node) ELSE roots
        /\ sres' = MkSRes("assign", c.exit, c.node, <<l, r>>)
  /\ UNCHANGED <<models, heap, twice, parsed, caller, res, readers>>

\* new sequence_statement_t(f, s)
NewSequence(f, s) ==
  /\ FreeNodes(nodes) # {}
  /\ <<f, s>> \in Args(roots)
  /\ f = Null \/ IsStatement(nodes, f)
  /\ s = Null \/ IsStatement(nodes, s)
  /\ \E c \in {new_sequence(nodes, f, s)} :
        /\ nodes' = c.nodes
        /\ roots' = IF c.exit = "ok" THEN Append(Pop(roots, 2), c.node) ELSE roots
        /\ sres' = MkSRes("sequence", c.exit, c.node, <<f, s>>)
  /\ UNCHANGED <<models, heap, twice, parsed, caller, res, readers>>

\* a->clone() on the statement on top of the stack
Clone(a) ==
  /\ roots # <<>> /\ a = Top(roots) /\ IsStatement(nodes, a)
  /\ Cardinality(FreeNodes(nodes)) >= Size(nodes, a)
  /\ Len(roots) < MaxRoots
  /\ \E c \in {clone(nodes, a)} :
        /\ nodes' = c.nodes
        /\ roots' = Append(roots, c.node)
        /\ sres' = MkSRes("clone", c.exit, c.node, <<a>>)
  /\ UNCHANGED <<models, heap, twice, parsed, caller, res, readers>>

\* delete on a node the caller owns: the one on top of the stack, or the
\* original of the clone it has just taken
Delete(i) ==
  /\ i \in DOMAIN roots
  /\ i = Len(roots) \/ (sres.op = "clone" /\ roots[i] = sres.from[1])
  /\ nodes' = delete(nodes, roots[i])
  /\ roots' = Without(roots, i)
  /\ sres' = MkSRes("delete", "ok", Null, <<roots[i]>>)
  /\ UNCHANGED <<models, heap, twice, parsed, caller, res, readers>>

InitStatements ==
  /\ Init
  /\ parsed = NoSystem
  /\ caller = 0

NextStatements ==
  \/ \E k \in Leaves : NewLeaf(k)
  \/ \E args \in Args(roots) : NewAssign(args[1], args[2])
  \/ \E args \in Args(roots) : NewSequence(args[1], args[2])
  \/ \E a \in { roots[i] : i \in DOMAIN roots } : Clone(a)
  \/ \E i \in 1..MaxRoots : Delete(i)

SpecStatements == InitStatements /\ [][NextStatements]_vars


\* ------------------------------------------------------------ properties
Ptrs(c) == UNION { { c[n][i] : i \in 1..Len(c[n]) } : n \in ContNames } \ {Null}
AttrCount(sys) == locations_count(sys) + 2 * edges_count(sys)
AllEmpty(c) == \A n \in ContNames : c[n] = <<>>
Constructed == res.op = "construct"
WeakSync == has_guarded_weakly_synchronized_event(parsed)

\* C1: constructing a model from a system with a guarded weakly
\* synchronized event fails with the dedicated error before any
\* compilation work: no attribute is type-checked or compiled, the logger
\* receives nothing, no typed AST and no bytecode is produced
C1_WeakSyncAbortsFirst ==
  (Constructed /\ WeakSync) =>
    /\ res.outcome = WeakSyncError
    /\ res.tc = <<>> /\ res.cc = <<>>
    /\ res.entries = <<>> /\ res.errors = res.caller
    /\ AllEmpty(res.c)
    /\ ~models[res.m].alive

C1_Witness ==
  /\ Constructed /\ WeakSync /\ res.outcome = WeakSyncError
  /\ locations_count(parsed) > 0


\* the compiler was run on every attribute: the pass reached its end
FullPass == Len(res.cc) = AttrCount(parsed)

\* C2: for a system that passes the weak-sync check, construction fails
\* with "System compilation failure" exactly when the pass ran to its end
\* and the logger then holds an error, and succeeds with a valid model
\* exactly when the pass ran to its end and the logger holds none; the
\* decision is never taken before every attribute has been processed
C2_DecidedAfterFullPass ==
  (Constructed /\ ~WeakSync) =>
    /\ res.outcome = CompilationFailure <=> (FullPass /\ res.errors > 0)
    /\ res.outcome = "ok" <=> (FullPass /\ res.errors = 0)
    /\ res.outcome = "ok" =>
         /\ models[res.m].alive /\ models[res.m].has_system
         /\ models[res.m].system = parsed
         /\ models[res.m].c = res.c
    /\ res.outcome # "ok" => ~models[res.m].alive

\* an error reported for the first attribute, the failure decided after the
\* last one
C2_Witness ==
  /\ Constructed /\ ~WeakSync /\ res.outcome = CompilationFailure
  /\ AttrCount(parsed) = 3 /\ Len(res.tc) = 3
  /\ res.entries # <<>>
  /\ res.entries[1].ctx = res.tc[1]

\* a failure that does not stop the pass: the attribute is reported to the
\* logger at least once
Tallied(ctx) == \E i \in 1..Len(res.entries) : res.entries[i].ctx = ctx

\* the contexts of all attributes of a system, in the order of the pass
Contexts(sys) ==
  [i \in 1..Len(sys.locs) |-> "Attribute invariant: " \o ExprToString(sys.locs[i])]
  \o [i \in 1..Len(sys.edges) |->
        "Attribute provided: " \o ExprToString(sys.edges[i].guard)]
  \o [i \in 1..Len(sys.edges) |->
        "Attribute do: " \o StmtToString(sys.edges[i].statement)]

\* the attributes of a system, in the order of the pass, as
\* <<is statement, untyped AST>>
Attributes(sys) ==
  [i \in 1..Len(sys.locs) |-> <<FALSE, sys.locs[i]>>]
  \o [i \in 1..Len(sys.edges) |-> <<FALSE, sys.edges[i].guard>>]
  \o [i \in 1..Len(sys.edges) |-> <<TRUE, sys.edges[i].statement>>]

\* the attribute fails in the type checker or in the compiler
Fails(a) ==
  LET tr == IF a[1] THEN typecheck_statement(a[2]) ELSE typecheck_expression(a[2])
      cr == IF a[1] THEN compile_statement(tr.cell) ELSE compile_expression(tr.cell)
  IN \/ tr.exc # ""
     \/ \E i \in 1..Len(tr.diags) : tr.diags[i].sev = "error"
     \/ cr.exc # ""

\* C3: a failure inside one attribute does not abort the pass: every
\* invariant, guard and statement is still type-checked, in order, and every
\* failing attribute is tallied in the logger
C3_FailureDoesNotAbort ==
  (Constructed /\ ~WeakSync) =>
    /\ res.tc = Contexts(parsed)
    /\ \A i \in 1..AttrCount(parsed) :
         Fails(Attributes(parsed)[i]) => Tallied(Contexts(parsed)[i])

\* C4: in a successfully constructed model every slot of the six containers
\* is non-null, L slots for invariants and E slots for guards and statements
C4_AllSlotsFilled ==
  \A m \in Models :
    (models[m].alive /\ models[m].has_system) =>
      LET c == models[m].c
          L == locations_count(models[m].system)
          E == edges_count(models[m].system)
      IN /\ Len(c["typed_invariants"]) = L /\ Len(c["invariants_bytecode"]) = L
         /\ Len(c["typed_guards"]) = E /\ Len(c["guards_bytecode"]) = E
         /\ Len(c["typed_statements"]) = E /\ Len(c["statements_bytecode"]) = E
         /\ \A n \in ContNames : \A i \in 1..Len(c[n]) : c[n][i] # Null

C4_Witness ==
  /\ Constructed /\ res.outcome = "ok"
  /\ locations_count(parsed) > 0 /\ edges_count(parsed) > 0
  /\ models[res.m].alive


\* pointers held by the models that exist
Held(ms) == UNION { Ptrs(ms[m].c) : m \in { k \in Models : ms[k].alive } }

\* C5: every typed AST and every bytecode buffer is released exactly once:
\* no cell is deleted twice, and a cell owned by a model is, after any
\* operation, either still owned by a model or released
C5_ReleasedExactlyOnce ==
  [][ /\ ~twice'
      /\ \A a \in Held(models) : a \in Held(models') \/ heap'[a] = FreeCell ]_vars

\* C6: when construction fails with "System compilation failure", every
\* typed AST and every bytecode buffer the pass allocated has been released
C6_FailureDiscardsPartialModel ==
  (Constructed /\ res.outcome = CompilationFailure) =>
    \A a \in Ptrs(res.c) : heap[a] = FreeCell

\* the type checker accepts the attribute and emits nothing but warnings,
\* and the compiler accepts its typed AST
WarnsAtMost(a) ==
  LET tr == IF a[1] THEN typecheck_statement(a[2]) ELSE typecheck_expression(a[2])
      cr == IF a[1] THEN compile_statement(tr.cell) ELSE compile_expression(tr.cell)
  IN /\ tr.exc = "" /\ cr.exc = ""
     /\ \A i \in 1..Len(tr.diags) : tr.diags[i].sev = "warning"
Warns(a) ==
  LET tr == IF a[1] THEN typecheck_statement(a[2]) ELSE typecheck_expression(a[2])
  IN tr.diags # <<>>
OnlyWarnings(sys) ==
  /\ \A i \in 1..AttrCount(sys) : WarnsAtMost(Attributes(sys)[i])
  /\ \E i \in 1..AttrCount(sys) : Warns(Attributes(sys)[i])

\* C7: when the type checker emits nothing but warnings for the system (and
\* the caller's log holds no error), they are recorded as warnings, the
\* error count stays 0 and construction succeeds
C7_WarningsNeverFail ==
  (Constructed /\ ~WeakSync /\ res.caller = 0 /\ OnlyWarnings(parsed)) =>
    /\ res.outcome = "ok"
    /\ res.errors = 0
    /\ \A i \in 1..Len(res.entries) : res.entries[i].sev = "warning"

Copied == res.op \in {"copy construct", "copy assign"} /\ res.m # res.src
TypedConts == {"typed_invariants", "typed_guards", "typed_statements"}
CodeConts == ContNames \ TypedConts

\* C8: a deep copy has the source's numbers of locations and edges,
\* byte-identical bytecode and identically printed typed ASTs slot by slot,
\* comes from a fresh compilation pass and shares no cell with the source
C8_DeepCopy ==
  Copied =>
    LET t == models[res.m]
        s == models[res.src]
    IN /\ t.alive /\ t.has_system
       /\ locations_count(t.system) = locations_count(s.system)
       /\ edges_count(t.system) = edges_count(s.system)
       /\ res.tc = Contexts(s.system) /\ res.cc = Contexts(s.system)
       /\ \A n \in ContNames :
            /\ Len(t.c[n]) = Len(s.c[n])
            /\ \A i \in 1..Len(t.c[n]) :
                 /\ t.c[n][i] # Null /\ s.c[n][i] # Null
                 /\ n \in CodeConts =>
                      /\ heap[t.c[n][i]].kind = "bytecode"
                      /\ heap[t.c[n][i]].code = heap[s.c[n][i]].code
                 /\ n \in TypedConts =>
                      /\ heap[t.c[n][i]].kind = heap[s.c[n][i]].kind
                      /\ TypedToString(heap[t.c[n][i]]) = TypedToString(heap[s.c[n][i]])
       /\ Ptrs(t.c) \cap Ptrs(s.c) = {}

C8_Witness ==
  /\ Copied /\ res.outcome = "ok"
  /\ AttrCount(models[res.src].system) = 3
  /\ Cardinality(Ptrs(models[res.m].c)) = 6

Moved == res.op \in {"move construct", "move assign"}

\* C9: a transfer hands every typed AST and bytecode buffer to the target
\* and leaves the source alive with six empty containers; no model ever
\* holds a released cell and no two models hold the same cell, so that
\* destroying or re-assigning the source releases nothing of the target
C9_TransferLeavesSourceEmpty ==
  /\ Moved =>
       /\ models[res.src].alive /\ AllEmpty(models[res.src].c)
       /\ models[res.m].alive /\ models[res.m].c = res.c
  /\ \A m \in Models : models[m].alive => Ptrs(models[m].c) \subseteq Allocated(heap)
  /\ \A m, k \in Models :
       (m # k /\ models[m].alive /\ models[k].alive) =>
         Ptrs(models[m].c) \cap Ptrs(models[k].c) = {}

\* the moved-from source has been destroyed and the target still holds the
\* transferred buffers
C9_Witness ==
  /\ res.op = "destroy" /\ AllEmpty(res.c) /\ AttrCount(parsed) = 3
  /\ \E m \in Models : models[m].alive /\ Cardinality(Ptrs(models[m].c)) = 6

ContPairs == { <<"typed_invariants", "invariants_bytecode">>,
               <<"typed_guards", "guards_bytecode">>,
               <<"typed_statements", "statements_bytecode">> }
\* slot i of the pair of containers p holds a typed AST tagged bad
BadSlot(p, i) == res.c[p[1]][i] # Null /\ heap[res.c[p[1]][i]].type = "bad"

\* C10: when the type checker returns a typed AST tagged bad for an
\* attribute, the attribute's bytecode slot stays null, the logger holds at
\* least one reported error and construction fails
C10_BadAstHasNoBytecode ==
  (Constructed /\ ~WeakSync) =>
    \A p \in ContPairs : \A i \in 1..Len(res.c[p[1]]) :
      BadSlot(p, i) =>
        /\ res.c[p[2]][i] = Null
        /\ res.entries # <<>> /\ res.errors >= 1
        /\ res.outcome # "ok"
        /\ ~models[res.m].alive

C10_Witness ==
  /\ Constructed /\ ~WeakSync /\ res.outcome = CompilationFailure
  /\ \E p \in ContPairs : \E i \in 1..Len(res.c[p[1]]) : BadSlot(p, i)

\* the diagnostics one attribute yields, each with the attribute's context:
\* those of the type checker, then the exception of the compiler
AttrEntries(a, ctx) ==
  LET tr == IF a[1] THEN typecheck_statement(a[2]) ELSE typecheck_expression(a[2])
      cr == IF a[1] THEN compile_statement(tr.cell) ELSE compile_expression(tr.cell)
  IN [k \in 1..Len(tr.diags) |-> [ctx |-> ctx, msg |-> tr.diags[k].msg]]
     \o (IF cr.exc # "" THEN <<[ctx |-> ctx, msg |-> cr.exc]>> ELSE <<>>)

RECURSIVE ExpectedEntries(_, _, _)
\* the diagnostics of the first n attributes of a system, from attribute i on
ExpectedEntries(sys, i, n) ==
  IF i > n THEN <<>>
  ELSE AttrEntries(Attributes(sys)[i], Contexts(sys)[i])
       \o ExpectedEntries(sys, i + 1, n)

\* C12: every diagnostic of the type checker and every exception of the
\* compiler reaches the logger with the context message of the attribute it
\* was reported for ("Attribute invariant: " / "Attribute provided: " /
\* "Attribute do: " followed by the pretty-printed attribute), and with no
\* other context
C12_DiagnosticsCarryOwnContext ==
  (Constructed /\ ~WeakSync) =>
    [k \in 1..Len(res.entries) |->
       [ctx |-> res.entries[k].ctx, msg |-> res.entries[k].msg]]
      = ExpectedEntries(parsed, 1, Len(res.cc))

\* a diagnostic of the type checker for a guard and an exception of the
\* compiler for an invariant in the same log
C12_Witness ==
  /\ Constructed /\ ~WeakSync
  /\ \E i, j \in 1..Len(res.entries) :
        /\ res.entries[i].origin = "compiler"
        /\ res.entries[i].ctx = "Attribute invariant: <unsupported>"
        /\ res.entries[j].origin = "error"
        /\ res.entries[j].ctx = "Attribute provided: z < 5"

\* identifiers a caller may ask for
Ids == 0..(MaxLoc + MaxEdge)

\* the expected size of the containers of a pair in a model
Expected(model, p) ==
  IF ~model.has_system THEN 0
  ELSE IF p[1] = "typed_invariants" THEN locations_count(model.system)
  ELSE edges_count(model.system)

\* the accessor of the typed AST of a pair of containers
TypedAccessor(model, p, id) ==
  IF p[1] = "typed_invariants" THEN typed_invariant(model, id)
  ELSE IF p[1] = "typed_guards" THEN typed_guard(model, id)
  ELSE typed_statement(model, id)

\* C15: in every model that exists the typed-AST container and the bytecode
\* container of each kind have the same size (L for invariants, E for
\* guards and statements, 0 after a transfer), so the assertion of
\* typed_invariant / typed_guard / typed_statement, which tests the size of
\* the bytecode container, rejects exactly the identifiers out of range and
\* never lets a read go past the end of the typed-AST container
C15_AssertionBoundsTypedAccess ==
  \A m \in Models : models[m].alive =>
    \A p \in ContPairs :
      /\ Len(models[m].c[p[1]]) = Len(models[m].c[p[2]])
      /\ Len(models[m].c[p[1]]) = Expected(models[m], p)
      /\ \A id \in Ids :
           /\ TypedAccessor(models[m], p, id).exit # "out of range"
           /\ TypedAccessor(models[m], p, id).exit = "ok"
                <=> id < Expected(models[m], p)

\* a transfer from a model with a location and an edge: identifier 0 is
\* served by the target and rejected by the assertion on the source
C15_Witness ==
  /\ Moved /\ AttrCount(parsed) = 3
  /\ typed_guard(models[res.m], 0).exit = "ok"
  /\ typed_guard(models[res.m], 1).exit = "assertion failed"
  /\ typed_invariant(models[res.src], 0).exit = "assertion failed"

\* the type checker returns a typed AST tagged bad for the attribute
TypedBad(a) ==
  LET tr == IF a[1] THEN typecheck_statement(a[2]) ELSE typecheck_expression(a[2])
  IN tr.exc = "" /\ tr.cell.type = "bad"

\* the contexts of the ill-typed attributes of a system
BadContexts(sys) ==
  { Contexts(sys)[i] : i \in { k \in 1..AttrCount(sys) : TypedBad(Attributes(sys)[k]) } }

\* C16: the compiler is never run on a typed AST tagged bad, and an
\* ill-typed attribute contributes nothing but the type checker's
\* diagnostics to the logger
C16_CompilerSkipsBadAst ==
  (Constructed /\ ~WeakSync) =>
    /\ \A k \in 1..Len(res.cc) : res.cc[k] \notin BadContexts(parsed)
    /\ \A k \in 1..Len(res.entries) :
         res.entries[k].ctx \in BadContexts(parsed) =>
           res.entries[k].origin # "compiler"

\* the attribute of the element of identifier i - 1 for a pair of
\* containers, as <<is statement, untyped AST>>
AttrOf(sys, p, i) ==
  IF p[1] = "typed_invariants" THEN <<FALSE, sys.locs[i]>>
  ELSE IF p[1] = "typed_guards" THEN <<FALSE, sys.edges[i].guard>>
  ELSE <<TRUE, sys.edges[i].statement>>

\* slot i of the pair p of the containers c holds, where it is filled, the
\* typed AST of that element's attribute and the bytecode compiled from
\* the typed AST in the same slot
Paired(c, sys, p, i) ==
  LET a == AttrOf(sys, p, i)
      tr == IF a[1] THEN typecheck_statement(a[2]) ELSE typecheck_expression(a[2])
      ta == c[p[1]][i]
      ba == c[p[2]][i]
  IN /\ ta # Null => heap[ta] = tr.cell
     /\ ba # Null =>
          /\ ta # Null
          /\ heap[ba].kind = "bytecode"
          /\ heap[ba].code = (IF a[1] THEN compile_statement(heap[ta])
                              ELSE compile_expression(heap[ta])).code

\* the system the last pass compiled
PassSystem == IF Constructed THEN parsed ELSE models[res.src].system

Abstract(model) ==
  [system |-> model.system,
   vm_variables |-> vm_variables(model),
   content |-> [n \in ContNames |->
                  [i \in 1..Len(model.c[n]) |->
                     IF model.c[n][i] = Null THEN FreeCell
                     ELSE heap[model.c[n][i]]]]]

C19_CopyAssertionHolds ==
  res.op \in {"copy construct", "copy assign"} =>
    /\ res.outcome = "ok"
    /\ res.errors = 0 /\ res.entries = <<>>

\* a copy that ran the type checker and the compiler on three attributes
C19_Witness ==
  /\ res.op = "copy construct" /\ res.outcome = "ok"
  /\ Len(res.tc) = 3 /\ Len(res.cc) = 3

NotEmptyErrors ==
  {"typed invariants not empty", "invariants bytecode not empty",
   "typed guards not empty", "guards bytecode not empty",
   "typed statements not empty", "statements bytecode not empty"}

\* C20: no construction, copy construction or copy assignment (onto a
\* compiled or a moved-from model) ever ends with one of the six
\* "... not empty" errors: compile is entered with six empty containers and
\* so reaches the type checker for the first attribute of the system
C20_CompileEntersEmpty ==
  res.op \in {"construct", "copy construct", "copy assign"} =>
    /\ res.outcome \notin NotEmptyErrors
    /\ (res.m # res.src /\ ~(Constructed /\ WeakSync)
         /\ AttrCount(PassSystem) > 0) => res.tc # <<>>

\* a copy assignment onto a model that holds compiled containers
C20_Witness ==
  /\ res.op = "copy assign" /\ res.m # res.src /\ res.outcome = "ok"
  /\ Len(res.tc) = 3
  /\ Cardinality(Allocated(heap)) = 12

\* the pair of containers and the side an accessor reads
AccPair(acc) ==
  CASE acc \in {"typed_invariant", "invariant_bytecode"} ->
         <<"typed_invariants", "invariants_bytecode">>
    [] acc \in {"typed_guard", "guard_bytecode"} ->
         <<"typed_guards", "guards_bytecode">>
    [] OTHER -> <<"typed_statements", "statements_bytecode">>
IsTypedAcc(acc) == acc \in {"typed_invariant", "typed_guard", "typed_statement"}

\* the value construction fixed for a call: the typed AST of the element's
\* attribute, or the bytecode compiled from it
FixedValue(model, acc, id) ==
  LET a == AttrOf(model.system, AccPair(acc), id + 1)
      tr == IF a[1] THEN typecheck_statement(a[2]) ELSE typecheck_expression(a[2])
      cr == IF a[1] THEN compile_statement(tr.cell) ELSE compile_expression(tr.cell)
  IN IF IsTypedAcc(acc) THEN tr.cell
     ELSE MkCell("bytecode", "", NoExpr, NoStmt, cr.code)

\* the call in progress e is served with the value fixed at construction
Served(e) ==
  /\ models[e.m].alive /\ models[e.m].has_system
  /\ IF e.acc = "vm_variables" THEN vm_variables(models[e.m]) = "default"
     ELSE /\ Accessor(models[e.m], e.acc, e.id).exit = "ok"
          /\ Accessor(models[e.m], e.acc, e.id).ptr # Null
          /\ heap[Accessor(models[e.m], e.acc, e.id).ptr]
               = FixedValue(models[e.m], e.acc, e.id)

\* C11: readers see an immutable model: a step of an accessor call leaves
\* every model and every typed AST and bytecode buffer as it was, and under
\* any interleaving of calls every call whose assertion passed reads a
\* non-null slot holding the value construction put there
C11_ReadersSeeFixedModel ==
  /\ [](\A e \in BagToSet(readers) : Served(e))
  /\ [][ readers' # readers =>
           /\ models' = models /\ heap' = heap /\ twice' = twice
           /\ \A e \in BagToSet(readers') : Served(e)' ]_vars

\* two calls in progress on the same model at once
C11_Witness ==
  /\ \E m \in Models :
       /\ BagIn(MkRead(m, "typed_guard", 0), readers)
       /\ BagIn(MkRead(m, "statement_bytecode", 0), readers)
  /\ BagCardinality(readers) = 2

\* ------------------------------------------------------------------
\* C13: a constructor of assign or sequence called with a null child ends
\* with std::invalid_argument, returns no node and leaves the nodes and the
\* caller's stack as they were; called with two nodes it returns a new node
\* of its class whose children are the two arguments, the caller owns the
\* new node and no longer the arguments, and no other node has them as child.
AllocatedNodes == { a \in NodeAddrs : nodes[a] # FreeNode }
Children(a) == {nodes[a].left, nodes[a].right} \ {Null}
Ctors == {"assign", "sequence"}
InRoots(a) == \E i \in DOMAIN roots : roots[i] = a
C13_Rejected ==
  /\ sres.exit = "invalid_argument"
  /\ sres.node = Null
  /\ \A a \in AllocatedNodes : Null \notin {nodes[a].left, nodes[a].right}
                           \/ nodes[a].kind \notin Ctors
  /\ \A i \in 1..2 : sres.from[i] # Null => sres.from[i] = Top(roots)
C13_Created ==
  /\ sres.exit = "ok"
  /\ sres.node \in AllocatedNodes
  /\ nodes[sres.node] = MkNode(sres.op, "", 0, sres.from[1], sres.from[2])
  /\ sres.from[1] # sres.from[2]
  /\ Top(roots) = sres.node
  /\ \A i \in 1..2 :
       /\ sres.from[i] \in AllocatedNodes
       /\ ~InRoots(sres.from[i])
       /\ \A b \in AllocatedNodes \ {sres.node} : sres.from[i] \notin Children(b)
C13_NullChildRejected ==
  /\ [](sres.op \in Ctors =>
          IF Null \in {sres.from[1], sres.from[2]} THEN C13_Rejected ELSE C13_Created)
  /\ [][ sres'.op \in Ctors /\ sres'.exit = "invalid_argument"
           => nodes' = nodes /\ roots' = roots ]_vars
\* both rejections and a creation have happened on a node that owns its two
\* children
C13_Witness ==
  /\ sres.op = "sequence" /\ sres.exit = "invalid_argument"
  /\ sres.from[1] # Null /\ sres.from[2] = Null
  /\ \E a \in AllocatedNodes : nodes[a].kind = "assign"

\* ------------------------------------------------------------------
\* C14: clone() of a statement tree returns a tree that is equal to the
\* original at every position and has no node in common with it; every
\* allocated node always has exactly one owner (the caller or one child
\* slot of one node), every tree the caller owns is whole, and a delete
\* leaves every other tree of the caller as it was.
RECURSIVE Tree(_, _)
Tree(nds, a) ==
  IF a = Null THEN <<"null">>
  ELSE IF nds[a].kind \in Ctors
       THEN <<nds[a].kind, Tree(nds, nds[a].left), Tree(nds, nds[a].right)>>
       ELSE <<nds[a].kind, nds[a].name, nds[a].val>>
RECURSIVE Reach(_, _)
Reach(nds, a) ==
  IF a = Null THEN {}
  ELSE IF nds[a].kind \in Ctors
       THEN {a} \cup Reach(nds, nds[a].left) \cup Reach(nds, nds[a].right)
       ELSE {a}
Owners(a) ==
  { <<"caller", i>> : i \in { j \in DOMAIN roots : roots[j] = a } }
    \cup { <<b, "left">> : b \in { c \in AllocatedNodes : nodes[c].left = a } }
    \cup { <<b, "right">> : b \in { c \in AllocatedNodes : nodes[c].right = a } }
OneOwner == \A a \in AllocatedNodes : Cardinality(Owners(a)) = 1
Whole ==
  \A i \in DOMAIN roots : Reach(nodes, roots[i]) \subseteq AllocatedNodes
C14_DeepCopy ==
  sres.op = "clone" =>
    /\ sres.exit = "ok"
    /\ sres.node # sres.from[1]
    /\ Top(roots) = sres.node
    /\ Tree(nodes, sres.node) = Tree(nodes, sres.from[1])
    /\ Reach(nodes, sres.node) \cap Reach(nodes, sres.from[1]) = {}
C14_CloneIsDeep ==
  /\ [](C14_DeepCopy /\ OneOwner /\ Whole)
  /\ [][ sres'.op = "delete" =>
           \A i \in DOMAIN roots' : Tree(nodes', roots'[i]) = Tree(nodes, roots'[i])
       ]_vars
\* a nested tree was cloned and the original deleted: the copy is on the
\* stack, whole and nested
C14_Witness ==
  /\ sres.op = "delete"
  /\ roots # <<>>
  /\ nodes[sres.from[1]] = FreeNode
  /\ \E a \in AllocatedNodes :
       /\ nodes[a].kind = "sequence"
       /\ a = Top(roots)
       /\ a > sres.from[1]
       /\ \E b \in Children(a) : nodes[b].kind \in Ctors

\* ------------------------------------------------------------------
\* C21: a compilation pass handles the invariants of all locations, then the
\* guards of all edges, then the statements of all edges, each group in
\* order of identifier; the logger gets every "Attribute invariant"
\* diagnostic before any "Attribute provided" one and every "Attribute
\* provided" diagnostic before any "Attribute do" one, and for one attribute
\* the diagnostics of the type checker before the exception of the compiler.
Phase(ctx) ==
  IF ctx \in { "Attribute invariant: " \o ExprToString(e) : e \in ExprAttrs } THEN 1
  ELSE IF ctx \in { "Attribute provided: " \o ExprToString(e) : e \in ExprAttrs } THEN 2
  ELSE IF ctx \in { "Attribute do: " \o StmtToString(t) : t \in StmtAttrs } THEN 3
  ELSE 0
SlotPhase(w) ==
  IF w[1] \in {"typed_invariants", "invariants_bytecode"} THEN 1
  ELSE IF w[1] \in {"typed_guards", "guards_bytecode"} THEN 2
  ELSE 3
Ordered(ph) ==
  \A i, j \in DOMAIN ph : i < j => (1 <= ph[i] /\ ph[i] <= ph[j])
Occurrences(sq, x) == Cardinality({ k \in DOMAIN sq : sq[k] = x })
====
